---------------------------- MODULE Spec2Model ----------------------------
(***************************************************************************)
(* MMDataParallel (mmcv/parallel/data_parallel.py): the DataParallel       *)
(* wrapper that supports DataContainer and adds train_step / val_step.     *)
(*                                                                         *)
(* The state is the CUDA environment, the wrapped module's parameters and  *)
(* buffers (each by the device it lives on), the wrapper's attributes, and *)
(* the record of the last operation on the wrapper: for __init__ the       *)
(* arguments it was given, for forward / train_step / val_step the         *)
(* exception raised, the value returned and the ordered log of the         *)
(* primitives invoked (placement check, scatter, replicate,                *)
(* parallel_apply, gather, calls of the wrapped module).                   *)
(***************************************************************************)
EXTENDS Integers, Sequences, FiniteSets

VARIABLES cuda_available,   \* torch.cuda.is_available()
          device_count,     \* torch.cuda.device_count()
          parameters,       \* module.parameters(): the device of each
          buffers,          \* module.buffers(): the device of each
          pc,               \* "new" | "ready" | "failed" (constructor raised)
          device_ids,       \* self.device_ids
          output_device,    \* self.output_device (<<>> while the attribute is unset)
          src_device_obj,   \* self.src_device_obj (<<>> while the attribute is unset)
          dim,              \* self.dim
          last              \* the last operation on the wrapper and its outcome

vars == <<cuda_available, device_count, parameters, buffers, pc,
          device_ids, output_device, src_device_obj, dim, last>>

(* ------------------------------ bounds -------------------------------- *)
MaxDevices == 2     \* device_count ranges over 1..MaxDevices
MaxTensors == 2     \* the module has at most this many parameters and buffers

(* The index the code uses for "no GPU": scatter(inputs, kwargs, [-1]).    *)
CPU == -1

Dims     == {0, 1}
Payloads == {"batchA", "batchB"}
RetVals  == {"out1", "out2"}

(* ----------------------------- helpers -------------------------------- *)
Min(a, b) == IF a <= b THEN a ELSE b

SeqsUpTo(S, n) == UNION {[1..m -> S] : m \in 0..n}

(* Python's seq[:n] for n >= 0.                                            *)
Prefix(s, n) == SubSeq(s, 1, Min(n, Len(s)))

(* list(range(n)) *)
ListRange(n) == [i \in 1..n |-> i - 1]

(* A device argument is an int or a torch.device('cuda:<i>').              *)
IntSpec(i) == [kind |-> "int", index |-> i]
DevSpec(i) == [kind |-> "torch.device", type |-> "cuda", index |-> i]

(* The device arguments a caller may pass on a machine with n GPUs (GPU 0   *)
(* is named even on a machine without CUDA, where the argument is ignored).*)
DeviceSpecs(n) ==
    LET m == IF n = 0 THEN 1 ELSE n
    IN  {IntSpec(i) : i \in 0..(m - 1)} \cup {DevSpec(i) : i \in 0..(m - 1)}

(* torch.cuda._utils._get_device_index(device, optional=True): an int is   *)
(* returned as is, a torch.device gives its index.                          *)
_get_device_index(x) == x.index

(* The optional constructor arguments.                                     *)
None == [given |-> FALSE]
Some(v) == [given |-> TRUE, val |-> v]

(* Devices a tensor may live on when device_count is n.                    *)
TensorDevices(n) == {CPU} \cup (0..(n - 1))

(* No operation on record (before __init__, or after the module moved).    *)
NoCall == [method |-> "none"]

(* ------------------------------- Init ---------------------------------- *)
Init ==
    /\ cuda_available \in BOOLEAN
    /\ device_count \in (IF cuda_available THEN 1..MaxDevices ELSE {0})
    \* a freshly built module: all of its tensors on one device
    /\ \E d \in TensorDevices(device_count), np, nb \in 0..MaxTensors :
          /\ np + nb <= MaxTensors
          /\ parameters = [i \in 1..np |-> d]
          /\ buffers = [i \in 1..nb |-> d]
    /\ pc = "new"
    /\ device_ids = <<>>
    /\ output_device = <<>>
    /\ src_device_obj = <<>>
    /\ dim = 0
    /\ last = NoCall

(* --------------------------- __init__ ---------------------------------- *)
(* nn.Module.cuda(device): every parameter and buffer moves to the device. *)
ModuleCuda(ts, d) == [i \in 1..Len(ts) |-> d]

(* The normalised id list: list(map(_get_device_index, device_ids)).       *)
NormaliseIds(ids) == [i \in 1..Len(ids) |-> _get_device_index(ids[i])]

(* device_ids = list(range(device_count)) when omitted.                    *)
DefaultDeviceIds(a_ids) ==
    IF a_ids.given THEN a_ids.val
    ELSE [i \in 1..device_count |-> IntSpec(ListRange(device_count)[i])]

(* Faulty variant: an omitted output_device becomes GPU 0.                 *)
DefaultOutputDevice_first_gpu(a_out, ids) == IF a_out.given THEN a_out.val ELSE IntSpec(0)

(* output_device = device_ids[0] when omitted.                             *)
DefaultOutputDevice(a_out, ids) == IF a_out.given THEN a_out.val ELSE ids[1]

Construct(a_ids, a_out, a_dim) ==
    /\ last' = [method |-> "__init__", device_ids |-> a_ids,
                output_device |-> a_out, dim |-> a_dim]
    /\ UNCHANGED <<cuda_available, device_count>>
    /\ IF ~cuda_available
       THEN /\ device_ids' = <<>>
            /\ dim' = a_dim
            /\ pc' = "ready"
            /\ UNCHANGED <<output_device, src_device_obj, parameters, buffers>>
       ELSE LET ids == DefaultDeviceIds(a_ids) IN
            IF ids = <<>>
            THEN \* device_ids[0] raises IndexError (line 41 or line 48)
                 /\ pc' = "failed"
                 /\ dim' = IF a_out.given THEN a_dim ELSE dim
                 /\ device_ids' = <<>>
                 /\ output_device' = IF a_out.given
                                     THEN <<_get_device_index(a_out.val)>>
                                     ELSE <<>>
                 /\ UNCHANGED <<src_device_obj, parameters, buffers>>
            ELSE /\ dim' = a_dim
                 /\ device_ids' = NormaliseIds(ids)
                 /\ output_device' = <<_get_device_index(DefaultOutputDevice(a_out, ids))>>
                 /\ src_device_obj' = <<device_ids'[1]>>
                 /\ pc' = "ready"
                 /\ IF Len(device_ids') = 1
                    THEN /\ parameters' = ModuleCuda(parameters, _get_device_index(ids[1]))
                         /\ buffers' = ModuleCuda(buffers, _get_device_index(ids[1]))
                    ELSE UNCHANGED <<parameters, buffers>>

CtorDeviceIds ==
    {None} \cup {Some(s) : s \in SeqsUpTo(DeviceSpecs(device_count), MaxDevices)}

CtorOutputDevice == {None} \cup {Some(d) : d \in DeviceSpecs(device_count)}

DoConstruct ==
    /\ pc = "new"
    /\ \E a_ids \in CtorDeviceIds, a_out \in CtorOutputDevice, a_dim \in Dims :
          Construct(a_ids, a_out, a_dim)

(* ---------------------------- scatter --------------------------------- *)
(* What a call passes on: (inputs, kwargs) of one batch.                   *)
Inputs(p) == [part |-> "inputs", of |-> p]
Kwargs(p) == [part |-> "kwargs", of |-> p]

(* The target_gpus argument: a list of ids, or (CPU train_step / val_step) *)
(* the bare int -1.                                                         *)
IdList(ids) == [is_list |-> TRUE, ids |-> ids]
BareId(d) == [is_list |-> FALSE, ids |-> <<d>>]

(* The number of chunks a scatter over `target` may produce: at least one, *)
(* at most one per target device (a batch smaller than the device list     *)
(* yields fewer chunks than devices).                                       *)
NumChunks(target) == 1..Len(target.ids)

(* scatter_kwargs(inputs, kwargs, target_gpus, dim): two tuples of equal   *)
(* length k, chunk i placed on target device i.  The operator gives every  *)
(* result the call may have, one per chunk count.                          *)
Chunk(x, i, target, d) == [from |-> x, idx |-> i - 1, dev |-> target.ids[i], dim |-> d]

scatter_kwargs(inputs, kwargs, target, d) ==
    { [inputs |-> [i \in 1..k |-> Chunk(inputs, i, target, d)],
       kwargs |-> [i \in 1..k |-> Chunk(kwargs, i, target, d)],
       call   |-> [op |-> "scatter", inputs |-> inputs, kwargs |-> kwargs,
                   target |-> target, dim |-> d]] : k \in NumChunks(target) }

(* Faulty variant: the scatter ignores self.dim and splits along dim 0.    *)
scatter_default_dim(inputs, kwargs, target) == scatter_kwargs(inputs, kwargs, target, 0)

(* MMDataParallel.scatter: scatter_kwargs with dim=self.dim                 *)
scatter(inputs, kwargs, target) == scatter_kwargs(inputs, kwargs, target, dim)

(* ------------------------- the logged primitives ----------------------- *)
CheckEv == [op |-> "placement_check"]
\* module(*a, **kw), module.train_step(*a, **kw), module.val_step(*a, **kw)
ModuleEv(method, a, kw, r) ==
    [op |-> "module", method |-> method, args |-> a, kwargs |-> kw, ret |-> r]
ReplicateEv(devs) == [op |-> "replicate", devices |-> devs]
ParallelApplyEv(replicas, ins, kws) ==
    [op |-> "parallel_apply", replicas |-> replicas, inputs |-> ins, kwargs |-> kws]
GatherEv(outputs, dev) == [op |-> "gather", outputs |-> outputs, target |-> dev]

(* How the positional / keyword arguments were unpacked: *inputs[0] passes *)
(* one chunk, *inputs passes the whole tuple of chunks.                    *)
OneChunk(c) == [unpacked |-> "chunk", chunks |-> <<c>>]
WholeTuple(cs) == [unpacked |-> "tuple", chunks |-> cs]

(* Faulty variant: the [0] is forgotten and the whole tuple is unpacked.    *)
ChunkZero_whole(xs) == WholeTuple(xs)

(* *inputs[0] and **kwargs[0]: the first chunk of a scattered tuple.        *)
ChunkZero(xs) == OneChunk(xs[1])

(* The value the wrapped module returns for a call.                        *)
ModuleRet(r) == [kind |-> "module_return", val |-> r]
(* replicate(module, devices): one replica per device.                     *)
replicate(devs) == [i \in 1..Len(devs) |-> [replica_on |-> devs[i]]]
(* parallel_apply(replicas, inputs, kwargs): replica i applied to chunk i. *)
parallel_apply(replicas, ins, kws, r) ==
    [i \in 1..Len(replicas) |->
        [kind |-> "replica_return", val |-> r, replica |-> replicas[i],
         args |-> ins[i], kwargs |-> kws[i]]]
(* gather(outputs, output_device)                                          *)
gather(outputs, dev) == [kind |-> "gathered", outputs |-> outputs, on |-> dev]

(* ------------------------ the placement check -------------------------- *)
(* for t in chain(parameters, buffers): if t.device != src_device_obj:     *)
(* raise.  The index of the first offending tensor, 0 when there is none.  *)
RECURSIVE FirstMisplacedFrom(_, _, _)
FirstMisplacedFrom(ts, src, i) ==
    IF i > Len(ts) THEN 0
    ELSE IF ts[i] # src THEN i
    ELSE FirstMisplacedFrom(ts, src, i + 1)

(* Faulty variant: the placement check skips the buffers.                  *)
CheckedTensors_parameters_only == parameters

(* chain(self.module.parameters(), self.module.buffers())                  *)
CheckedTensors == parameters \o buffers

FirstMisplaced == FirstMisplacedFrom(CheckedTensors, src_device_obj[1], 1)

RuntimeError(found) == [type |-> "RuntimeError", on |-> src_device_obj[1], found |-> found]
AssertionError == [type |-> "AssertionError"]
NoException == [type |-> "none"]

(* The call ends: `last` takes its outcome, nothing else changes.          *)
Finish(method, p, e, log, result) ==
    /\ last' = [method |-> method, payload |-> p, exc |-> e, log |-> log, result |-> result]
    /\ UNCHANGED <<cuda_available, device_count, parameters, buffers, pc,
                   device_ids, output_device, src_device_obj, dim>>

Raise(method, p, e, log) == Finish(method, p, e, log, <<>>)
Return(method, p, v, log) == Finish(method, p, NoException, log, <<v>>)

(* ----------------------------- forward --------------------------------- *)
(* Faulty variant: the module is replicated onto every device id.          *)
ReplicaDevices_all(inputs) == device_ids

(* self.device_ids[:len(inputs)]                                           *)
ReplicaDevices(inputs) == Prefix(device_ids, Len(inputs))

forward(p) ==
    /\ pc = "ready"
    /\ IF device_ids = <<>>
       THEN \E s \in scatter(Inputs(p), Kwargs(p), IdList(<<CPU>>)), r \in RetVals :
               Return("forward", p, ModuleRet(r),
                   << s.call,
                      ModuleEv("forward", ChunkZero(s.inputs), ChunkZero(s.kwargs),
                               ModuleRet(r)) >>)
       ELSE IF FirstMisplaced # 0
       THEN Raise("forward", p, RuntimeError(CheckedTensors[FirstMisplaced]), <<CheckEv>>)
       ELSE \E s \in scatter(Inputs(p), Kwargs(p), IdList(device_ids)), r \in RetVals :
               IF Len(device_ids) = 1
               THEN Return("forward", p, ModuleRet(r),
                        << CheckEv, s.call,
                           ModuleEv("forward", ChunkZero(s.inputs), ChunkZero(s.kwargs),
                                    ModuleRet(r)) >>)
               ELSE LET devs == ReplicaDevices(s.inputs)
                        replicas == replicate(devs)
                        outputs == parallel_apply(replicas, s.inputs, s.kwargs, r)
                    IN  IF Len(replicas) # Len(s.inputs)
                        THEN \* parallel_apply asserts len(modules) == len(inputs)
                             Raise("forward", p, AssertionError,
                                 << CheckEv, s.call, ReplicateEv(devs),
                                    ParallelApplyEv(replicas, s.inputs, s.kwargs) >>)
                        ELSE Return("forward", p, gather(outputs, output_device[1]),
                                 << CheckEv, s.call, ReplicateEv(devs),
                                    ParallelApplyEv(replicas, s.inputs, s.kwargs),
                                    GatherEv(outputs, output_device[1]) >>)

(* ----------------------- train_step / val_step ------------------------- *)
(* Faulty variant: the assertion accepts any non-empty device list.        *)
SingleGpu_nonempty == Len(device_ids) >= 1

(* assert len(self.device_ids) == 1                                        *)
SingleGpu == Len(device_ids) = 1

(* The two methods are the same code up to the module method they call.    *)
step(method, p) ==
    /\ pc = "ready"
    /\ IF device_ids = <<>>
       THEN \E s \in scatter(Inputs(p), Kwargs(p), BareId(CPU)), r \in RetVals :
               Return(method, p, ModuleRet(r),
                   << s.call,
                      ModuleEv(method, WholeTuple(s.inputs), WholeTuple(s.kwargs),
                               ModuleRet(r)) >>)
       ELSE IF ~SingleGpu
       THEN Raise(method, p, AssertionError, <<>>)
       ELSE IF FirstMisplaced # 0
       THEN Raise(method, p, RuntimeError(CheckedTensors[FirstMisplaced]), <<CheckEv>>)
       ELSE \E s \in scatter(Inputs(p), Kwargs(p), IdList(device_ids)), r \in RetVals :
               Return(method, p, ModuleRet(r),
                   << CheckEv, s.call,
                      ModuleEv(method, ChunkZero(s.inputs), ChunkZero(s.kwargs),
                               ModuleRet(r)) >>)

train_step(p) == step("train_step", p)

val_step(p) == step("val_step", p)

DoForward == \E p \in Payloads : forward(p)

DoTrainStep == \E p \in Payloads : train_step(p)

DoValStep == \E p \in Payloads : val_step(p)

(* -------------------------- the environment ---------------------------- *)
(* Between calls the user may move a parameter or a buffer of the wrapped  *)
(* module to another device (module.to(...), a newly placed tensor).  The  *)
(* record of the previous operation is dropped.                            *)
MoveParameter ==
    /\ pc = "ready"
    /\ \E i \in 1..Len(parameters), d \in TensorDevices(device_count) :
          /\ parameters[i] # d
          /\ parameters' = [parameters EXCEPT ![i] = d]
    /\ last' = NoCall
    /\ UNCHANGED <<cuda_available, device_count, buffers, pc,
                   device_ids, output_device, src_device_obj, dim>>

MoveBuffer ==
    /\ pc = "ready"
    /\ \E i \in 1..Len(buffers), d \in TensorDevices(device_count) :
          /\ buffers[i] # d
          /\ buffers' = [buffers EXCEPT ![i] = d]
    /\ last' = NoCall
    /\ UNCHANGED <<cuda_available, device_count, parameters, pc,
                   device_ids, output_device, src_device_obj, dim>>

(* ============================ properties =============================== *)
Steps == {"train_step", "val_step"}

LogOps == {last.log[i].op : i \in 1..Len(last.log)}

CountOp(op) == Cardinality({i \in 1..Len(last.log) : last.log[i].op = op})

(* Some parameter or buffer of the module is off cuda:device_ids[0].       *)
SomeTensorOffSource ==
    \/ \E i \in 1..Len(parameters) : parameters[i] # device_ids[1]
    \/ \E i \in 1..Len(buffers) : buffers[i] # device_ids[1]

(* The scatter call a method makes with the wrapper's own dim.             *)
ScatterCall(target) ==
    [op |-> "scatter", inputs |-> Inputs(last.payload), kwargs |-> Kwargs(last.payload),
     target |-> target, dim |-> dim]

(* Chunk 0 of `x` scattered over the device list `ids` with the wrapper's  *)
(* dim, passed unpacked.                                                   *)
FirstChunk(x, ids) ==
    [unpacked |-> "chunk",
     chunks |-> << [from |-> x, idx |-> 0, dev |-> ids[1], dim |-> dim] >>]

(* C1: on a wrapper with two or more device ids, train_step and val_step   *)
(* raise AssertionError having done nothing: no placement check, no        *)
(* scatter, no call of the wrapped module, no return value.                *)
C1_MultiGpuStepAsserts ==
    (pc = "ready" /\ Len(device_ids) >= 2 /\ last.method \in Steps)
        => /\ last.exc = [type |-> "AssertionError"]
           /\ last.log = <<>>
           /\ last.result = <<>>

(* C1 case: val_step on a two-device wrapper whose module has a tensor off *)
(* device_ids[0], so that the placement check would have raised.           *)
C1_Witness ==
    /\ pc = "ready" /\ Len(device_ids) >= 2 /\ last.method = "val_step"
    /\ SomeTensorOffSource
    /\ last.exc.type = "AssertionError"

(* C2: in CPU mode forward scatters (inputs, kwargs) once onto [-1] with   *)
(* the constructor's dim, calls the module once with chunk 0 of both, and  *)
(* returns its result; no placement check, replicate, parallel_apply or    *)
(* gather takes place.                                                     *)
C2_CpuForward ==
    (pc = "ready" /\ device_ids = <<>> /\ last.method = "forward")
        => /\ last.exc.type = "none"
           /\ Len(last.log) = 2
           /\ last.log[1] = ScatterCall([is_list |-> TRUE, ids |-> <<-1>>])
           /\ last.log[2].op = "module" /\ last.log[2].method = "forward"
           /\ last.log[2].args = FirstChunk(Inputs(last.payload), <<-1>>)
           /\ last.log[2].kwargs = FirstChunk(Kwargs(last.payload), <<-1>>)
           /\ last.result = <<last.log[2].ret>>
           /\ LogOps \cap {"placement_check", "replicate", "parallel_apply", "gather"} = {}

(* C2 case: a CPU forward on a wrapper built with dim = 1 and a module     *)
(* that has parameters.                                                    *)
C2_Witness ==
    /\ pc = "ready" /\ ~cuda_available /\ last.method = "forward"
    /\ dim = 1 /\ parameters # <<>>
    /\ last.result # <<>>

(* C3: in GPU mode, forward (any number of devices) and train_step /       *)
(* val_step (one device) raise RuntimeError when a parameter or buffer is  *)
(* off cuda:device_ids[0]; nothing but the placement check has run.        *)
C3_MisplacedRaises ==
    (/\ pc = "ready" /\ device_ids # <<>>
     /\ \/ last.method = "forward"
        \/ last.method \in Steps /\ Len(device_ids) = 1
     /\ SomeTensorOffSource)
        => /\ src_device_obj = <<device_ids[1]>>
           /\ last.exc.type = "RuntimeError"
           /\ last.exc.on = device_ids[1]
           /\ last.exc.found # device_ids[1]
           /\ LogOps \cap {"scatter", "replicate", "parallel_apply", "gather", "module"} = {}
           /\ last.result = <<>>

(* C3 case: train_step on a one-device wrapper whose parameters are in     *)
(* place and whose buffer is not.                                          *)
C3_Witness ==
    /\ pc = "ready" /\ Len(device_ids) = 1 /\ last.method = "train_step"
    /\ parameters # <<>> /\ \A i \in 1..Len(parameters) : parameters[i] = device_ids[1]
    /\ \E i \in 1..Len(buffers) : buffers[i] # device_ids[1]
    /\ last.exc.type = "RuntimeError"

(* C4: on a one-device wrapper with every tensor on cuda:device_ids[0],    *)
(* train_step / val_step scatter once onto device_ids, call the module's   *)
(* method of the same name once with chunk 0 of inputs and kwargs, return  *)
(* its result unchanged, and use no replicate, parallel_apply or gather    *)
(* and no forward of the module.                                           *)
C4_SingleGpuStep ==
    (/\ pc = "ready" /\ Len(device_ids) = 1 /\ last.method \in Steps
     /\ ~SomeTensorOffSource)
        => /\ last.exc.type = "none"
           /\ CountOp("scatter") = 1 /\ CountOp("module") = 1
           /\ LogOps \subseteq {"placement_check", "scatter", "module"}
           /\ \E i, j \in 1..Len(last.log) :
                 /\ i < j
                 /\ last.log[i] = ScatterCall([is_list |-> TRUE, ids |-> device_ids])
                 /\ last.log[j].op = "module"
                 /\ last.log[j].method = last.method
                 /\ last.log[j].args = FirstChunk(Inputs(last.payload), device_ids)
                 /\ last.log[j].kwargs = FirstChunk(Kwargs(last.payload), device_ids)
                 /\ last.result = <<last.log[j].ret>>

(* C4 case: a val_step that returned on a wrapper built on GPU 1 with      *)
(* dim = 1, the module holding a parameter and a buffer.                   *)
C4_Witness ==
    /\ pc = "ready" /\ device_ids = <<1>> /\ last.method = "val_step"
    /\ parameters # <<>> /\ buffers # <<>> /\ dim = 1
    /\ last.result # <<>>

(* C5: a GPU-mode forward on a correctly placed module runs the placement  *)
(* check, then the scatter onto all device_ids, then either (one device    *)
(* id) one direct call of the module on chunk 0, or (two or more) the      *)
(* replicate onto the first k device ids, k the number of chunks and       *)
(* k <= len(device_ids), the parallel_apply over those k replicas and the  *)
(* gather of the k outputs onto output_device.                             *)
C5_GpuForwardOrder ==
    (pc = "ready" /\ device_ids # <<>> /\ last.method = "forward" /\ ~SomeTensorOffSource)
        => /\ last.exc.type = "none"
           /\ Len(last.log) >= 3
           /\ last.log[1].op = "placement_check"
           /\ last.log[2] = ScatterCall([is_list |-> TRUE, ids |-> device_ids])
           /\ IF Len(device_ids) = 1
              THEN /\ Len(last.log) = 3
                   /\ last.log[3].op = "module" /\ last.log[3].method = "forward"
                   /\ last.log[3].args = FirstChunk(Inputs(last.payload), device_ids)
                   /\ last.log[3].kwargs = FirstChunk(Kwargs(last.payload), device_ids)
                   /\ last.result = <<last.log[3].ret>>
              ELSE /\ Len(last.log) = 5
                   /\ last.log[3].op = "replicate"
                   /\ last.log[4].op = "parallel_apply"
                   /\ last.log[5].op = "gather"
                   /\ LET k == Len(last.log[4].inputs)
                      IN  /\ k <= Len(device_ids)
                          /\ Len(last.log[4].kwargs) = k
                          /\ last.log[3].devices = SubSeq(device_ids, 1, k)
                          /\ Len(last.log[4].replicas) = k
                          /\ \A i \in 1..k :
                                /\ last.log[4].replicas[i].replica_on = device_ids[i]
                                /\ last.log[4].inputs[i].idx = i - 1
                                /\ last.log[4].inputs[i].dev = device_ids[i]
                          /\ Len(last.log[5].outputs) = k
                          /\ last.log[5].target = output_device[1]
                          /\ last.result = << [kind |-> "gathered",
                                               outputs |-> last.log[5].outputs,
                                               on |-> output_device[1]] >>

(* C5 case: a forward whose scatter gave fewer chunks than there are       *)
(* device ids, gathered onto a device other than device_ids[0].            *)
C5_Witness ==
    /\ pc = "ready" /\ Len(device_ids) >= 2 /\ last.method = "forward"
    /\ last.result # <<>>
    /\ Len(last.log[4].inputs) < Len(device_ids)
    /\ output_device[1] # device_ids[1]

(* C6: after a successful construction with CUDA available, device_ids is  *)
(* 0..n-1 in increasing order when omitted and otherwise the given list in *)
(* its order and length (each entry as its device index), src_device_obj   *)
(* is cuda:device_ids[0], and output_device is device_ids[0] when omitted. *)
C6_CtorDefaults ==
    (pc = "ready" /\ cuda_available /\ last.method = "__init__")
        => /\ IF last.device_ids.given
              THEN /\ Len(device_ids) = Len(last.device_ids.val)
                   /\ \A i \in 1..Len(device_ids) :
                         device_ids[i] = last.device_ids.val[i].index
              ELSE /\ Len(device_ids) = device_count
                   /\ \A i \in 1..device_count : device_ids[i] = i - 1
           /\ src_device_obj = <<device_ids[1]>>
           /\ ~last.output_device.given => output_device = <<device_ids[1]>>

(* C6 case: device_ids given as [torch.device('cuda:1'), 0], output_device *)
(* omitted.                                                                *)
C6_Witness ==
    /\ pc = "ready" /\ cuda_available /\ last.method = "__init__"
    /\ last.device_ids.given /\ ~last.output_device.given
    /\ Len(device_ids) = 2
    /\ last.device_ids.val[1].kind = "torch.device"
    /\ device_ids[1] = 1 /\ device_ids[2] = 0

Next ==
    \/ DoConstruct
    \/ DoForward
    \/ DoTrainStep
    \/ DoValStep
    \/ MoveParameter
    \/ MoveBuffer

Spec == Init /\ [][Next]_vars
=============================================================================
